---------------------------- MODULE Spec2Model ----------------------------
(* A model of src/main.py: the city store (SQLite tables cities and       *)
(* default_cities reached through SQLAlchemy sessions), the request       *)
(* handlers add_city, remove_city, reset_cities, update_weather and       *)
(* read_root, the startup hook, and the weather client fetch_weather.     *)
(*                                                                        *)
(* Every handler is an "async def" whose database calls are synchronous,  *)
(* so a handler runs without interruption except at an await. Only        *)
(* update_weather awaits (asyncio.gather, line 158): it is modelled in    *)
(* three steps (read and launch, one step per fetch settling, merge and   *)
(* commit); all other handlers are one atomic step.                       *)
(*                                                                        *)
(* Optional column values (temperature, updated_at) are <<>> for NULL and *)
(* <<v>> for the value v. Time is counted in minutes. A name is a         *)
(* sequence of characters; a character outside ASCII is written by its    *)
(* code point ("U+00C5").                                                 *)
EXTENDS Integers, Sequences, FiniteSets, TLC

VARIABLES
    started,    \* the startup hook has run
    served,     \* how many POST requests the process has taken so far
    defaults,   \* table default_cities, in rowid order
    cities,     \* table cities: id -> row
    clock,      \* datetime.utcnow(), in minutes
    pc,         \* per update_weather request: "idle", or "gather" at the await
    snap,       \* per request: the City objects its session loaded (id -> row)
    bnow,       \* per request: the local variable now
    results,    \* per request: id -> outcome of the task launched for it
    response,   \* the last response a handler sent
    call,       \* the last weather-client call: its HTTP exchange and result
    page        \* the last list of cities rendered by read_root

vars == <<started, served, defaults, cities, clock, pc, snap, bnow, results,
          response, call, page>>

-----------------------------------------------------------------------------
(* Bounds *)

\* Largest rowid the cities table hands out.
MaxId == 2
\* The process takes this many POST requests.
MaxRequests == 4
\* The clock stops after this many ticks.
MaxTicks == 3
\* Minutes per clock tick.
TickMinutes == 5
\* update_weather requests that can be in flight at once.
Requests == {1, 2}
\* Those that Spec lets run: one at a time.
Single == {1}

None == <<>>
Some(v) == <<v>>

\* Temperatures the provider reports.
Temps == {10, 12}

-----------------------------------------------------------------------------
(* Names and the ILIKE comparison of add_city *)

Aring == "U+00C5"
aring == "U+00E5"

Ulm      == <<"U", "l", "m">>
ULM      == <<"U", "L", "M">>
Abo      == <<Aring, "b", "o">>
aboLower == <<aring, "b", "o">>

\* SQLite's lower() and LIKE fold the 26 ASCII letters only.
AsciiLower(c) ==
    CASE c = "U" -> "u"
      [] c = "L" -> "l"
      [] c = "M" -> "m"
      [] c = "B" -> "b"
      [] c = "O" -> "o"
      [] OTHER -> c

SqlLower(s) == [i \in 1..Len(s) |-> AsciiLower(s[i])]

RECURSIVE LikeMatch(_, _)
\* SQLite: string s LIKE pattern p; % is any run of characters, _ is any one.
LikeMatch(p, s) ==
    IF p = <<>> THEN s = <<>>
    ELSE IF Head(p) = "%"
         THEN \E k \in 0..Len(s) : LikeMatch(Tail(p), SubSeq(s, k + 1, Len(s)))
    ELSE IF s = <<>> THEN FALSE
    ELSE IF Head(p) = "_" THEN LikeMatch(Tail(p), Tail(s))
    ELSE AsciiLower(Head(p)) = AsciiLower(Head(s)) /\ LikeMatch(Tail(p), Tail(s))

\* City.name.ilike(name): lower(cities.name) LIKE lower(:name).
Ilike(colname, name) == LikeMatch(SqlLower(name), SqlLower(colname))


-----------------------------------------------------------------------------
(* Rows and inputs *)

\* City(name=..., latitude=..., longitude=...): the nullable columns start NULL.
NewCity(name, latitude, longitude) ==
    [name |-> name, latitude |-> latitude, longitude |-> longitude,
     temperature |-> None, updated_at |-> None]

DefaultRow(name, latitude, longitude) ==
    [name |-> name, latitude |-> latitude, longitude |-> longitude]

\* Contents europe.csv may have (the file is not part of the sources).
Datasets ==
    { << DefaultRow(Ulm, 48, 10), DefaultRow(Abo, 60, 22) >>,
      << DefaultRow(Abo, 60, 22) >> }

\* Form submissions to /cities/add.
AddForms ==
    { [name |-> Ulm,      latitude |-> 48, longitude |-> 10],
      [name |-> ULM,      latitude |-> 48, longitude |-> 10],
      [name |-> aboLower, latitude |-> 60, longitude |-> 22] }

Ids == 1..MaxId

Max(S) == CHOOSE x \in S : \A y \in S : y <= x

\* The rowid SQLite gives an inserted row: one more than the largest in the table.
NextId(table) == IF DOMAIN table = {} THEN 1 ELSE Max(DOMAIN table) + 1

Redirect(message, type) == [message |-> message, type |-> type]
NoResponse == Redirect("", "")
\* What the framework answers when a handler raises.
ServerError == Redirect("Internal Server Error", "500")

-----------------------------------------------------------------------------
(* Weather client *)

\* What the provider's HTTP exchange can be: the transport outcome, the status,
\* and the body (not JSON, JSON without current_weather.temperature, or JSON
\* with that field holding a number or null).
Bodies ==
    { [kind |-> "not_json", temperature |-> None],
      [kind |-> "no_field", temperature |-> None],
      [kind |-> "field",    temperature |-> None] }
    \cup { [kind |-> "field", temperature |-> Some(t)] : t \in Temps }

Statuses == {200, 404, 429, 500}

Exchanges ==
    [net : {"ok", "connect_error", "timeout"}, status : Statuses, body : Bodies]

Raised == [st |-> "exc", temp |-> None]
Returned(t) == [st |-> "ok", temp |-> t]
Pending == [st |-> "pending", temp |-> None]

\* fetch_weather: session.get raises on a transport failure; response.json()
\* raises on a body that is not JSON; the subscripts raise KeyError on a
\* missing field; the status is never looked at.
fetch_weather(x) ==
    IF x.net # "ok" THEN Raised
    ELSE IF x.body.kind = "not_json" THEN Raised
    ELSE IF x.body.kind = "no_field" THEN Raised
    ELSE Returned(x.body.temperature)

NoCall == [made |-> FALSE, latitude |-> 0, longitude |-> 0,
           exchange |-> CHOOSE x \in Exchanges : TRUE, result |-> Pending]

-----------------------------------------------------------------------------
(* Initial state: a fresh database file, before the startup event *)

Init ==
    /\ started = FALSE
    /\ served = 0
    /\ defaults = <<>>
    /\ cities = <<>>
    /\ clock = 0
    /\ pc = [r \in Requests |-> "idle"]
    /\ snap = [r \in Requests |-> <<>>]
    /\ bnow = [r \in Requests |-> 0]
    /\ results = [r \in Requests |-> <<>>]
    /\ response = NoResponse
    /\ call = NoCall
    /\ page = <<>>

InFlight(r) == pc[r] = "gather"

\* The server takes one more POST request.
Accept ==
    /\ started
    /\ served < MaxRequests
    /\ served' = served + 1

\* The hook without its emptiness test: every start reads the file
\* in place of what is stored.
StartupAlwaysLoads ==
    /\ \A r \in Requests : ~InFlight(r)
    /\ started' = TRUE
    /\ \E d \in Datasets : defaults' = d
    /\ UNCHANGED <<served, cities, clock, pc, snap, bnow, results, response,
                   call, page>>

\* populate_default_cities, at process start; a restart runs it again.
Startup ==
    /\ \A r \in Requests : ~InFlight(r)
    /\ started' = TRUE
    /\ IF defaults = <<>>
       THEN \E d \in Datasets : defaults' = d
       ELSE defaults' = defaults
    /\ UNCHANGED <<served, cities, clock, pc, snap, bnow, results, response,
                   call, page>>

Tick ==
    /\ clock + TickMinutes <= MaxTicks * TickMinutes
    /\ clock' = clock + TickMinutes
    /\ UNCHANGED <<started, served, defaults, cities, pc, snap, bnow, results,
                   response, call, page>>

\* add_city. The UNIQUE index on cities.name cannot reject the insert:
\* a name equal to a stored one always matches it under LIKE.
AddCity(form) ==
    /\ Accept
    /\ IF \E id \in DOMAIN cities : Ilike(cities[id].name, form.name)
       THEN /\ cities' = cities
            /\ response' = Redirect("This city already exists", "error")
       ELSE /\ NextId(cities) <= MaxId
            /\ cities' = cities @@
                 (NextId(cities) :>
                    NewCity(form.name, form.latitude, form.longitude))
            /\ response' = Redirect("City added", "success")
    /\ UNCHANGED <<started, defaults, clock, pc, snap, bnow, results, call, page>>

\* remove_city without its "if city": deleting None raises.
RemoveCityOrFail(city_id) ==
    /\ Accept
    /\ cities' = [id \in DOMAIN cities \ {city_id} |-> cities[id]]
    /\ response' = IF city_id \in DOMAIN cities
                   THEN Redirect("City deleted", "success")
                   ELSE ServerError
    /\ UNCHANGED <<started, defaults, clock, pc, snap, bnow, results, call, page>>

\* remove_city
RemoveCity(city_id) ==
    /\ Accept
    /\ cities' = [id \in DOMAIN cities \ {city_id} |-> cities[id]]
    /\ response' = Redirect("City deleted", "success")
    /\ UNCHANGED <<started, defaults, clock, pc, snap, bnow, results, call, page>>

\* The reset without its DELETE: rows beyond the default set survive.
ResetCitiesKeepingRows ==
    /\ Accept
    /\ cities' = [i \in DOMAIN cities \cup (1..Len(defaults)) |->
                    IF i <= Len(defaults)
                    THEN NewCity(defaults[i].name, defaults[i].latitude,
                                 defaults[i].longitude)
                    ELSE cities[i]]
    /\ response' = Redirect("City list reset", "success")
    /\ UNCHANGED <<started, defaults, clock, pc, snap, bnow, results, call, page>>

\* reset_cities
ResetCities ==
    /\ Accept
    /\ cities' = [i \in 1..Len(defaults) |->
                    NewCity(defaults[i].name, defaults[i].latitude,
                            defaults[i].longitude)]
    /\ response' = Redirect("City list reset", "success")
    /\ UNCHANGED <<started, defaults, clock, pc, snap, bnow, results, call, page>>

-----------------------------------------------------------------------------
(* update_weather *)

\* timedelta(minutes=15), line 154
FreshnessMinutes == 15

\* The comparison with <= in place of <.
NeedsRefreshStrict(city, now) ==
    ~ (city.updated_at # None /\ now - city.updated_at[1] <= FreshnessMinutes)

\* Lines 154-156: the city is skipped when it has a timestamp less than
\* fifteen minutes old; otherwise a task is appended for it.
NeedsRefresh(city, now) ==
    ~ (city.updated_at # None /\ now - city.updated_at[1] < FreshnessMinutes)

\* Lines 149-158, up to the await: load every city, capture now, launch one
\* task per city that is not skipped.
BatchStart(r) ==
    /\ Accept
    /\ ~InFlight(r)
    /\ pc' = [pc EXCEPT ![r] = "gather"]
    /\ snap' = [snap EXCEPT ![r] = cities]
    /\ bnow' = [bnow EXCEPT ![r] = clock]
    /\ results' = [results EXCEPT ![r] =
            [id \in {i \in DOMAIN cities : NeedsRefresh(cities[i], clock)}
                |-> Pending]]
    /\ UNCHANGED <<started, defaults, cities, clock, response, call, page>>

\* Line 64: the coordinates the task of city id calls the weather client
\* with, taken from the City object the session loaded.
IssuedCall(r, id) ==
    [latitude |-> snap[r][id].latitude, longitude |-> snap[r][id].longitude]

\* A task whose failed fetch is issued again.
FetchSettleWithRetry(r, id) ==
    /\ InFlight(r)
    /\ id \in DOMAIN results[r]
    /\ results[r][id] \in {Pending, Raised}
    /\ \E out \in {fetch_weather(x) : x \in Exchanges} :
          results' = [results EXCEPT ![r][id] = out]
    /\ UNCHANGED <<started, served, defaults, cities, clock, pc, snap, bnow,
                   response, call, page>>

\* A task that moves the batch's timestamp to the time it completes.
FetchSettleStampsCompletion(r, id) ==
    /\ InFlight(r)
    /\ id \in DOMAIN results[r]
    /\ results[r][id] = Pending
    /\ \E out \in {fetch_weather(x) : x \in Exchanges} :
          results' = [results EXCEPT ![r][id] = out]
    /\ bnow' = [bnow EXCEPT ![r] = clock]
    /\ UNCHANGED <<started, served, defaults, cities, clock, pc, snap,
                   response, call, page>>

\* A task that stores its temperature as soon as it has it.
FetchSettleWriteThrough(r, id) ==
    /\ InFlight(r)
    /\ id \in DOMAIN results[r]
    /\ results[r][id] = Pending
    /\ \E out \in {fetch_weather(x) : x \in Exchanges} :
          /\ results' = [results EXCEPT ![r][id] = out]
          /\ cities' = [i \in DOMAIN cities |->
                          IF i = id /\ out.st = "ok"
                          THEN [cities[i] EXCEPT !.temperature = out.temp,
                                                 !.updated_at = Some(bnow[r])]
                          ELSE cities[i]]
    /\ UNCHANGED <<started, served, defaults, clock, pc, snap, bnow,
                   response, call, page>>

\* update_city_weather for one launched task: the provider answers (or not)
\* and gather records the value returned or the exception raised.
FetchSettle(r, id) ==
    /\ InFlight(r)
    /\ id \in DOMAIN results[r]
    /\ results[r][id] = Pending
    /\ \E out \in {fetch_weather(x) : x \in Exchanges} :
          results' = [results EXCEPT ![r][id] = out]
    /\ UNCHANGED <<started, served, defaults, cities, clock, pc, snap, bnow,
                   response, call, page>>

AllSettled(r) == \A id \in DOMAIN results[r] : results[r][id] # Pending

\* Lines 160-165: the City objects given a temperature and a timestamp.
Merged(r) == {id \in DOMAIN results[r] : results[r][id].st = "ok"}

\* The unit of work writes a column only when its new value differs from
\* the value the session loaded.
TemperatureDirty(r, id) == results[r][id].temp # snap[r][id].temperature
UpdatedAtDirty(r, id) == Some(bnow[r]) # snap[r][id].updated_at
Dirty(r) == {id \in Merged(r) : TemperatureDirty(r, id) \/ UpdatedAtDirty(r, id)}

\* A commit that writes back every column of the object the session loaded.
FlushedWholeRow(r, table) ==
    [id \in DOMAIN table |->
        IF id \in Dirty(r)
        THEN [snap[r][id] EXCEPT !.temperature = results[r][id].temp,
                                 !.updated_at  = Some(bnow[r])]
        ELSE table[id]]

\* The timestamp taken when the batch finishes instead of when it starts.
FlushedAtCompletion(r, table) ==
    [id \in DOMAIN table |->
        IF id \in Merged(r)
        THEN [table[id] EXCEPT !.temperature = results[r][id].temp,
                               !.updated_at  = Some(clock)]
        ELSE table[id]]

\* db.commit(), line 167: one UPDATE ... WHERE cities.id = :id per dirty
\* object, in one transaction.
Flushed(r, table) ==
    [id \in DOMAIN table |->
        IF id \in Dirty(r)
        THEN [table[id] EXCEPT
                !.temperature = IF TemperatureDirty(r, id)
                                THEN results[r][id].temp ELSE @,
                !.updated_at  = IF UpdatedAtDirty(r, id)
                                THEN Some(bnow[r]) ELSE @]
        ELSE table[id]]

\* gather without return_exceptions: the first exception leaves the handler.
CommitFailsOnException(r) ==
    \/ \E id \in DOMAIN results[r] : results[r][id].st = "exc"
    \/ \E id \in Dirty(r) : id \notin DOMAIN cities

\* An UPDATE that matches no row makes the commit raise (StaleDataError) and
\* the transaction roll back; the request then ends in a server error.
CommitFails(r) == \E id \in Dirty(r) : id \notin DOMAIN cities

\* A handler that goes on waiting until every fetch has succeeded.
BatchCommitWhenAllSucceed(r) ==
    /\ InFlight(r)
    /\ AllSettled(r)
    /\ Merged(r) = DOMAIN results[r]
    /\ IF \E id \in Dirty(r) : id \notin DOMAIN cities
       THEN /\ cities' = cities
            /\ response' = ServerError
       ELSE /\ cities' = Flushed(r, cities)
            /\ response' = Redirect("Temperature reset", "success")
    /\ pc' = [pc EXCEPT ![r] = "idle"]
    /\ snap' = [snap EXCEPT ![r] = <<>>]
    /\ bnow' = [bnow EXCEPT ![r] = 0]
    /\ results' = [results EXCEPT ![r] = <<>>]
    /\ UNCHANGED <<started, served, defaults, clock, call, page>>

\* Lines 158-171, after the await.
BatchCommit(r) ==
    /\ InFlight(r)
    /\ AllSettled(r)
    /\ IF CommitFails(r)
       THEN /\ cities' = cities
            /\ response' = ServerError
       ELSE /\ cities' = Flushed(r, cities)
            /\ response' = Redirect("Temperature reset", "success")
    /\ pc' = [pc EXCEPT ![r] = "idle"]
    /\ snap' = [snap EXCEPT ![r] = <<>>]
    /\ bnow' = [bnow EXCEPT ![r] = 0]
    /\ results' = [results EXCEPT ![r] = <<>>]
    /\ UNCHANGED <<started, served, defaults, clock, call, page>>

Next ==
    \/ Startup
    \/ Tick
    \/ \E form \in AddForms : AddCity(form)
    \/ \E city_id \in Ids : RemoveCity(city_id)
    \/ ResetCities
    \/ \E r \in Single : BatchStart(r)
    \/ \E r \in Single, id \in Ids : FetchSettle(r, id)
    \/ \E r \in Single : BatchCommit(r)

Spec == Init /\ [][Next]_vars

\* The event loop resumes a coroutine whose awaited gather is done, and the
\* provider (or the client's own timeout) ends every call that was issued.
Scheduling ==
    /\ \A r \in Single : WF_vars(BatchCommit(r))
    /\ \A r \in Single, id \in Ids : WF_vars(FetchSettle(r, id))

\* The add forms the fair specification submits.
LiveForms == {form \in AddForms : form.name = Ulm}

\* Every handler, with the adds drawn from LiveForms.
NextLive ==
    \/ Startup
    \/ Tick
    \/ \E form \in LiveForms : AddCity(form)
    \/ \E city_id \in Ids : RemoveCity(city_id)
    \/ ResetCities
    \/ \E r \in Single : BatchStart(r)
    \/ \E r \in Single, id \in Ids : FetchSettle(r, id)
    \/ \E r \in Single : BatchCommit(r)

SpecLive == Init /\ [][NextLive]_vars /\ Scheduling

\* Two update_weather requests that may overlap, over the default cities.
NextOverlap ==
    \/ Startup
    \/ Tick
    \/ ResetCities
    \/ \E r \in Requests : BatchStart(r)
    \/ \E r \in Requests, id \in Ids : FetchSettle(r, id)
    \/ \E r \in Requests : BatchCommit(r)

SpecOverlap ==
    /\ Init
    /\ [][NextOverlap]_vars
    /\ \A r \in Requests : WF_vars(BatchCommit(r))
    /\ \A r \in Requests, id \in Ids : WF_vars(FetchSettle(r, id))

-----------------------------------------------------------------------------
(* The weather client on its own: one call per step, for any coordinates   *)
(* and any answer of the provider.                                         *)

ClientCall ==
    \E form \in AddForms, x \in Exchanges :
        call' = [made |-> TRUE, latitude |-> form.latitude,
                 longitude |-> form.longitude, exchange |-> x,
                 result |-> fetch_weather(x)]

NextClient ==
    ClientCall /\ UNCHANGED <<started, served, defaults, cities, clock, pc,
                              snap, bnow, results, response, page>>

SpecClient == Init /\ [][NextClient]_vars

-----------------------------------------------------------------------------
(* read_root on its own, over the stores the handlers can leave behind     *)

\* ORDER BY (temperature IS NULL) DESC, temperature DESC: a must come
\* before b when its first key is larger, or the first keys are equal and
\* its second key is larger.
NullFlag(city) == IF city.temperature = None THEN 1 ELSE 0

SortsBefore(a, b) ==
    \/ NullFlag(a) > NullFlag(b)
    \/ /\ NullFlag(a) = NullFlag(b)
       /\ a.temperature # None
       /\ b.temperature # None
       /\ a.temperature[1] > b.temperature[1]

\* The orders in which the query may return the rows of a table: every
\* arrangement of the rows that never puts b ahead of a when a sorts before b.
QueryOrders(table) ==
    LET n == Cardinality(DOMAIN table)
        arrangements ==
            {f \in [1..n -> DOMAIN table] : \A i, j \in 1..n : i # j => f[i] # f[j]}
    IN  { [i \in 1..n |-> table[f[i]]] :
            f \in {g \in arrangements :
                     \A i, j \in 1..n :
                        i < j => ~SortsBefore(table[g[j]], table[g[i]])} }

\* read_root: the list handed to the template.
ReadRoot ==
    /\ page' \in QueryOrders(cities)
    /\ UNCHANGED <<started, served, defaults, cities, clock, pc, snap, bnow,
                   results, response, call>>

ListNames == {Ulm, Abo, <<"R", "i", "g", "a">>}

\* Stores with distinct names in which a city has a temperature exactly when
\* it has a timestamp.
ListStores ==
    UNION { { t \in [1..n -> [name : ListNames, latitude : {48}, longitude : {10},
                              temperature : {None} \cup {Some(v) : v \in Temps},
                              updated_at : {None, Some(0)}]] :
                /\ \A i, j \in 1..n : i # j => t[i].name # t[j].name
                /\ \A i \in 1..n : (t[i].temperature = None) <=> (t[i].updated_at = None) }
            : n \in 0..MaxId }

InitList ==
    /\ started = TRUE
    /\ served = 0
    /\ defaults = <<>>
    /\ cities \in ListStores
    /\ clock = 0
    /\ pc = [r \in Requests |-> "idle"]
    /\ snap = [r \in Requests |-> <<>>]
    /\ bnow = [r \in Requests |-> 0]
    /\ results = [r \in Requests |-> <<>>]
    /\ response = NoResponse
    /\ call = NoCall
    /\ page = <<>>

NextList == ReadRoot

SpecList == InitList /\ [][NextList]_vars

-----------------------------------------------------------------------------
(* Properties *)

TemperatureReset == Redirect("Temperature reset", "success")

\* Case folding of letters as a reader takes them: A-ring folds to a-ring.
FoldCase(c) == IF c = Aring THEN aring ELSE AsciiLower(c)

\* Two names are the same up to the case of their letters.
EqualIgnoringCase(a, b) ==
    /\ Len(a) = Len(b)
    /\ \A i \in 1..Len(a) : FoldCase(a[i]) = FoldCase(b[i])

\* The step is request r leaving its await: the merge and the commit.
CommitStep(r) == InFlight(r) /\ pc'[r] = "idle"

\* The step is request r starting.
StartStep(r) == ~InFlight(r) /\ pc'[r] = "gather"

\* The step is a handler other than update_weather answering with message.
Answered(message, type) ==
    /\ served' = served + 1
    /\ pc' = pc
    /\ response' = Redirect(message, type)

\* C1: when a batch refresh completes over the store it read, every city
\* whose fetch succeeded holds the fetched temperature and the "now" taken
\* when the batch started, and every other city holds the row it had.
C1_BatchOutcome ==
    [][\A r \in Requests :
        /\ StartStep(r) => bnow'[r] = clock
        /\ (CommitStep(r) /\ cities = snap[r]) =>
              /\ DOMAIN cities' = DOMAIN cities
              /\ \A id \in DOMAIN cities :
                    IF id \in DOMAIN results[r] /\ results[r][id].st = "ok"
                    THEN /\ cities'[id].temperature = results[r][id].temp
                         /\ cities'[id].updated_at = Some(bnow[r])
                    ELSE cities'[id] = cities[id]]_vars

\* A finished batch left one city with a timestamp older than the clock
\* (the start of the batch, not its end) and another city untouched.
C1_Witness ==
    /\ response = TemperatureReset
    /\ \E a, b \in DOMAIN cities :
          /\ cities[a].temperature # None
          /\ cities[a].updated_at # None
          /\ cities[a].updated_at[1] < clock
          /\ cities[b].temperature = None
          /\ cities[b].updated_at = None

\* C2: a batch in which some fetches raised still ends: it commits the
\* successful results and answers with its success redirect.
C2_FailuresSwallowed ==
    [][\A r \in Requests :
        ( /\ CommitStep(r)
          /\ cities = snap[r]
          /\ \E id \in DOMAIN results[r] : results[r][id].st = "exc" ) =>
              /\ response' = TemperatureReset
              /\ \A id \in DOMAIN results[r] :
                    results[r][id].st = "ok" =>
                        /\ cities'[id].temperature = results[r][id].temp
                        /\ cities'[id].updated_at = Some(bnow[r])]_vars

\* A batch about to commit with one fetch failed and one succeeded.
C2_Witness ==
    \E r \in Requests :
        /\ InFlight(r)
        /\ AllSettled(r)
        /\ cities = snap[r]
        /\ \E a, b \in DOMAIN results[r] :
              /\ results[r][a].st = "exc"
              /\ results[r][b].st = "ok"
              /\ results[r][b].temp # snap[r][b].temperature

\* C3: a batch launches a fetch for exactly the cities with no timestamp or
\* with a timestamp at least fifteen minutes before its "now", and only the
\* cities it launched a fetch for ever get a result.
C3_StalenessFilter ==
    [][\A r \in Requests :
        /\ StartStep(r) =>
              DOMAIN results'[r] =
                 {id \in DOMAIN cities :
                     \/ cities[id].updated_at = None
                     \/ clock - cities[id].updated_at[1] >= 15}
        /\ (InFlight(r) /\ InFlight(r)') => DOMAIN results'[r] = DOMAIN results[r]]_vars

\* A batch in flight that fetches a city updated exactly fifteen minutes
\* before its "now" and skips one updated less than fifteen minutes before.
C3_Witness ==
    \E r \in Requests :
        /\ InFlight(r)
        /\ \E a, b \in DOMAIN snap[r] :
              /\ snap[r][a].updated_at = Some(bnow[r] - 15)
              /\ a \in DOMAIN results[r]
              /\ snap[r][b].updated_at # None
              /\ bnow[r] - snap[r][b].updated_at[1] < 15
              /\ bnow[r] - snap[r][b].updated_at[1] > 0
              /\ b \notin DOMAIN results[r]

\* C4: every city has a temperature exactly when it has a timestamp.
C4_BothOrNeither ==
    \A id \in DOMAIN cities :
        (cities[id].temperature = None) <=> (cities[id].updated_at = None)

\* C5: a step of a batch changes the store only when it is the commit, taken
\* with every launched fetch settled; and while the batch waits, the rows it
\* loaded and its "now" stay as read at its start.
C5_WriteOnceAtEnd ==
    [][\A r \in Requests :
        /\ ( /\ (pc'[r] # pc[r] \/ results'[r] # results[r] \/ snap'[r] # snap[r])
             /\ cities' # cities ) => (CommitStep(r) /\ AllSettled(r))
        /\ StartStep(r) => snap'[r] = cities
        /\ (InFlight(r) /\ InFlight(r)') =>
              (snap'[r] = snap[r] /\ bnow'[r] = bnow[r])]_vars

\* A batch with one fetch settled successfully and one still pending, and
\* the store still as the batch read it.
C5_Witness ==
    \E r \in Requests :
        /\ InFlight(r)
        /\ cities = snap[r]
        /\ \E a, b \in DOMAIN results[r] :
              /\ results[r][a].st = "ok"
              /\ results[r][a].temp # cities[a].temperature
              /\ results[r][b] = Pending

\* C6: an add is accepted only when no stored city has the same name up to
\* case, and a rejected add leaves the store as it was.
C6_AddRejectsCaseCollision ==
    [][/\ Answered("City added", "success") =>
             ~ \E id \in DOMAIN cities :
                  EqualIgnoringCase(cities[id].name, cities'[NextId(cities)].name)
       /\ Answered("This city already exists", "error") => cities' = cities]_vars

\* C7: no two cities of the store have the same name up to case.
C7_NamesUniqueIgnoringCase ==
    \A a, b \in DOMAIN cities :
        a # b => ~EqualIgnoringCase(cities[a].name, cities[b].name)

\* C8: after a reset the store holds one city per default record, with its
\* name and coordinates, no temperature and no timestamp, and nothing else.
C8_ResetExact ==
    [][Answered("City list reset", "success") =>
         /\ Cardinality(DOMAIN cities') = Len(defaults)
         /\ \A i \in 1..Len(defaults) :
               \E id \in DOMAIN cities' :
                  /\ cities'[id].name = defaults[i].name
                  /\ cities'[id].latitude = defaults[i].latitude
                  /\ cities'[id].longitude = defaults[i].longitude
         /\ \A id \in DOMAIN cities' :
               cities'[id].temperature = None /\ cities'[id].updated_at = None]_vars

\* A reset has just answered, after earlier requests, and left cities.
C8_Witness ==
    /\ response = Redirect("City list reset", "success")
    /\ served >= 3
    /\ Cardinality(DOMAIN cities) = Len(defaults)
    /\ cities # <<>>

\* C9: the client returns a temperature exactly when the transport worked,
\* the status is a success and the body holds the temperature field.
C9_ClientContract ==
    call.made =>
        ( call.result.st = "ok" <=>
            /\ call.exchange.net = "ok"
            /\ call.exchange.status = 200
            /\ call.exchange.body.kind = "field" )

\* C10: the list is by temperature descending, cities without a temperature
\* after all cities with one.
C10_NullsLastDescending ==
    \A i, j \in 1..Len(page) :
        i < j =>
            /\ page[i].temperature = None => page[j].temperature = None
            /\ (page[i].temperature # None /\ page[j].temperature # None) =>
                   page[i].temperature[1] >= page[j].temperature[1]


\* C11: a remove of an identifier that no city has leaves the store as it
\* was and answers its redirect; a remove of a stored identifier deletes
\* that city alone and leaves every other city as it was.
C11_RemoveExact ==
    [][\A city_id \in Ids :
        RemoveCity(city_id) =>
            /\ response' = Redirect("City deleted", "success")
            /\ city_id \notin DOMAIN cities => cities' = cities
            /\ city_id \in DOMAIN cities =>
                  /\ DOMAIN cities' = DOMAIN cities \ {city_id}
                  /\ \A id \in DOMAIN cities' : cities'[id] = cities[id]]_vars

\* A remove has answered and the store holds city 2 without city 1: the
\* first of two cities was deleted and the other kept.
C11_Witness ==
    /\ response = Redirect("City deleted", "success")
    /\ DOMAIN cities = {2}


\* C12: a batch issues one weather-client call for each city with no
\* timestamp or a timestamp at least fifteen minutes old, with that city's
\* latitude and longitude, and none for any other city; a call that has
\* settled, failed or not, is never issued again before the batch ends,
\* and the batch ends only with every call settled.
C12_OneCallPerEligibleCity ==
    [][\A r \in Requests :
        /\ StartStep(r) =>
              \A id \in DOMAIN cities :
                 IF \/ cities[id].updated_at = None
                    \/ clock - cities[id].updated_at[1] >= 15
                 THEN /\ id \in DOMAIN results'[r]
                      /\ results'[r][id] = Pending
                      /\ IssuedCall(r, id)' =
                            [latitude |-> cities[id].latitude,
                             longitude |-> cities[id].longitude]
                 ELSE id \notin DOMAIN results'[r]
        /\ (InFlight(r) /\ InFlight(r)') =>
              /\ DOMAIN results'[r] = DOMAIN results[r]
              /\ \A id \in DOMAIN results[r] :
                    /\ results[r][id] # Pending => results'[r][id] = results[r][id]
                    /\ IssuedCall(r, id)' = IssuedCall(r, id)
        /\ CommitStep(r) =>
              \A id \in DOMAIN results[r] : results[r][id] # Pending]_vars

\* A batch in flight over two cities: the call for one has failed, the
\* other city was fresh and has no call.
C12_Witness ==
    \E r \in Requests :
        /\ InFlight(r)
        /\ \E a, b \in DOMAIN snap[r] :
              /\ a \in DOMAIN results[r]
              /\ results[r][a] = Raised
              /\ IssuedCall(r, a) = [latitude |-> 48, longitude |-> 10]
              /\ b \notin DOMAIN results[r]


\* C13: a batch that was launched ends: with every issued call settling, it
\* reaches its commit and answers; it leaves its await only through the
\* commit with every call settled, and with every call settled the commit
\* can always be taken.
C13_BatchRunsToCompletion ==
    /\ \A r \in Single : InFlight(r) ~> ~InFlight(r)
    /\ [][\A r \in Single :
            (InFlight(r) /\ ~InFlight(r)') =>
                /\ AllSettled(r)
                /\ response' \in {TemperatureReset, ServerError}]_vars
    /\ [](\A r \in Single :
            (InFlight(r) /\ AllSettled(r)) => ENABLED BatchCommit(r))

\* A batch whose calls have all settled, every one of them failed, while
\* the store has changed under it.
C13_Witness ==
    \E r \in Single :
        /\ InFlight(r)
        /\ AllSettled(r)
        /\ DOMAIN results[r] # {}
        /\ Merged(r) = {}
        /\ cities # snap[r]


\* C14: the startup hook fills the default set from the dataset when the
\* set is empty and leaves it alone otherwise, so starting again changes
\* nothing; and no add, remove, reset or refresh changes the default set.
C14_SeedingIdempotent ==
    [][/\ (Startup /\ defaults = <<>>) => defaults' \in Datasets
       /\ defaults # <<>> => defaults' = defaults
       /\ defaults' # defaults =>
             (served' = served /\ cities' = cities /\ pc' = pc)]_vars

\* The default set is loaded, every request the process takes has been
\* served, and the store holds a city that is not a default one.
C14_Witness ==
    /\ started
    /\ defaults \in Datasets
    /\ served = MaxRequests
    /\ \E id \in DOMAIN cities :
          \A i \in 1..Len(defaults) : defaults[i].name # cities[id].name


\* C15: the store a batch leaves depends on the store, the batch's "now"
\* and each city's fetch outcome, not on the order in which the fetches
\* complete: a fetch completing records its own outcome and changes nothing
\* else (so completions in either order reach the same state), and the
\* commit writes what the store, the "now" and the outcomes determine.
C15_CompletionOrderIrrelevant ==
    [][\A r \in Requests :
        /\ (InFlight(r) /\ InFlight(r)' /\ results'[r] # results[r]) =>
              /\ \E id \in DOMAIN results[r] :
                    /\ results[r][id] = Pending
                    /\ results'[r][id] # Pending
                    /\ \A other \in DOMAIN results[r] \ {id} :
                          results'[r][other] = results[r][other]
              /\ UNCHANGED <<cities, snap, bnow, pc, clock, defaults, response>>
        /\ (CommitStep(r) /\ cities = snap[r]) =>
              cities' =
                 [id \in DOMAIN cities |->
                    IF id \in DOMAIN results[r] /\ results[r][id].st = "ok"
                    THEN [name |-> cities[id].name,
                          latitude |-> cities[id].latitude,
                          longitude |-> cities[id].longitude,
                          temperature |-> results[r][id].temp,
                          updated_at |-> Some(bnow[r])]
                    ELSE cities[id]]]_vars

\* Both fetches of a batch have completed, with different temperatures,
\* some time after the batch took its "now".
C15_Witness ==
    \E r \in Requests :
        /\ InFlight(r)
        /\ clock > bnow[r]
        /\ \E a, b \in DOMAIN results[r] :
              /\ results[r][a] = Returned(Some(10))
              /\ results[r][b] = Returned(Some(12))


\* C16: whatever adds, removes and resets run while a batch waits, a commit
\* changes the temperature only of a city the batch issued a call for, and
\* that city is still the one it loaded: the same name, at the coordinates
\* the call was issued with.
C16_WritesOnlyTheFetchedCity ==
    [][\A r \in Requests :
        CommitStep(r) =>
            \A id \in DOMAIN cities :
                cities'[id].temperature # cities[id].temperature =>
                    /\ id \in DOMAIN results[r]
                    /\ cities[id].name = snap[r][id].name
                    /\ IssuedCall(r, id) =
                          [latitude |-> cities[id].latitude,
                           longitude |-> cities[id].longitude]]_vars


\* C17: a commit never replaces a city's timestamp by an older one, also
\* when two batches overlap.
C17_TimestampNeverDecreases ==
    [][\A r \in Requests :
        CommitStep(r) =>
            \A id \in DOMAIN cities :
                cities[id].updated_at # None =>
                    /\ cities'[id].updated_at # None
                    /\ cities'[id].updated_at[1] >= cities[id].updated_at[1]]_vars


\* C18: no step of a batch refresh (its start, a fetch completing, its
\* commit) adds or removes a city or changes a city's name, latitude or
\* longitude, whatever the fetch outcomes.
C18_RefreshFrame ==
    [][\A r \in Requests :
        (pc'[r] # pc[r] \/ results'[r] # results[r]) =>
            /\ DOMAIN cities' = DOMAIN cities
            /\ \A id \in DOMAIN cities :
                  /\ cities'[id].name = cities[id].name
                  /\ cities'[id].latitude = cities[id].latitude
                  /\ cities'[id].longitude = cities[id].longitude]_vars

\* A batch has answered and the store is full, every city with a
\* temperature, the temperatures not all the same.
C18_Witness ==
    /\ response = TemperatureReset
    /\ DOMAIN cities = Ids
    /\ \A id \in Ids : cities[id].temperature # None
    /\ \E a, b \in Ids : cities[a].temperature # cities[b].temperature

=============================================================================
